---- MODULE Spec2Model ----
(***************************************************************************)
(* A model of package config (src/config.go): a schema-validated,         *)
(* hierarchical configuration store with defaults, change callbacks,      *)
(* section views, Merge, Reload and Reset.                                 *)
(*                                                                         *)
(* Go strings are sequences of characters, so that strings.Split,          *)
(* strings.Trim, strings.HasPrefix and sort.Strings are computed the way   *)
(* the library computes them.  A character is a one-letter TLA+ string;    *)
(* the eight characters of the marker "__many__" are kept as one token.    *)
(* A Go value is a record carrying its dynamic type (what reflect.TypeOf   *)
(* sees) and its payload; maps are records with a kids function.           *)
(***************************************************************************)
EXTENDS Integers, Sequences, FiniteSets, TLC

(***************************************************************************)
(* Strings                                                                 *)
(***************************************************************************)
Dot == "."

EmptyStr == <<>>

\* ASCII order of the characters used by the model ('.' < '_' < 'a' < ...).
Alphabet == <<".", "__many__", "a", "b", "l", "m", "v", "x">>

Rank(c) == CHOOSE i \in 1..Len(Alphabet) : Alphabet[i] = c

RECURSIVE StrLess(_, _)
StrLess(s, t) ==
    IF t = <<>> THEN FALSE
    ELSE IF s = <<>> THEN TRUE
    ELSE IF Head(s) = Head(t) THEN StrLess(Tail(s), Tail(t))
    ELSE Rank(Head(s)) < Rank(Head(t))

\* strings.Split(s, "."): the pieces between the dots, "" gives [""].
RECURSIVE SplitFrom(_, _)
SplitFrom(s, acc) ==
    IF s = <<>> THEN <<acc>>
    ELSE IF Head(s) = Dot THEN <<acc>> \o SplitFrom(Tail(s), <<>>)
    ELSE SplitFrom(Tail(s), Append(acc, Head(s)))

Split(s) == SplitFrom(s, <<>>)

\* strings.Join(segs, ".")
RECURSIVE Join(_)
Join(segs) ==
    IF segs = <<>> THEN <<>>
    ELSE IF Len(segs) = 1 THEN segs[1]
    ELSE segs[1] \o <<Dot>> \o Join(Tail(segs))

RECURSIVE TrimLeft(_)
TrimLeft(s) == IF s # <<>> /\ Head(s) = Dot THEN TrimLeft(Tail(s)) ELSE s

RECURSIVE TrimRight(_)
TrimRight(s) ==
    IF s # <<>> /\ s[Len(s)] = Dot THEN TrimRight(SubSeq(s, 1, Len(s) - 1)) ELSE s

\* strings.Trim(s, ".")
Trim(s) == TrimRight(TrimLeft(s))

\* strings.HasPrefix(s, p): a comparison of characters, not of segments.
HasPrefix(s, p) == Len(p) <= Len(s) /\ SubSeq(s, 1, Len(p)) = p

prefixKey(section, key) ==
    IF section = EmptyStr THEN key ELSE Trim(section) \o <<Dot>> \o Trim(key)

manyMarker == <<"__many__">>

(***************************************************************************)
(* Values and their dynamic types                                          *)
(***************************************************************************)
\* A type name as getTypeOf prints it: name, or [name] for a slice.
TypeName(br, name) == [br |-> br, name |-> name]

\* One scalar: the name of its Go type and its payload (strings and bools
\* are numbered).
Atom(name, n) == [name |-> name, n |-> n]

\* A scalar value of Go type `name`.
Scalar(name, n) == [slice |-> FALSE, name |-> name, elems |-> <<Atom(name, n)>>]

\* A slice whose element type is `name` ("" for []interface{}).
Slice(name, atoms) == [slice |-> TRUE, name |-> name, elems |-> atoms]

\* The nil interface value.
Nil == [slice |-> FALSE, name |-> "nil", elems |-> <<>>]

getTypeOf(val) ==
    IF val = Nil THEN TypeName(FALSE, "")
    ELSE IF val.slice THEN TypeName(TRUE, val.name)
    ELSE TypeName(FALSE, val.name)

IntNames == {"int", "int64", "int32", "int16", "int8",
             "uint", "uint64", "uint32", "uint16", "uint8"}

FloatNames == {"float32", "float64"}

\* u{0,1}int(64|32|16|8|) is not anchored: it matches wherever the text
\* holds "int", inside brackets too.
typeIntPattern(t) == t.name \in IntNames

\* float(32|64|), not anchored either.
typeFloatPattern(t) == t.name \in FloatNames

\* ^\[.*\]$
typeSlicePattern(t) == t.br

isCompatibleType(typeA, typeB) ==
    IF typeIntPattern(typeA) THEN typeIntPattern(typeB)
    ELSE IF typeFloatPattern(typeA) THEN typeFloatPattern(typeB)
    ELSE IF typeSlicePattern(typeA) THEN typeSlicePattern(typeB)
    ELSE typeA = typeB

generalizeAtom(a) ==
    IF a.name \in IntNames THEN Atom("int64", a.n)
    ELSE IF a.name \in FloatNames THEN Atom("float64", a.n)
    ELSE a

\* generalizeScalarType without the conversion to the 64 bit types.
generalizeScalarType_NoWiden(val) == val

\* Only ever applied to scalars (generalizeType tests the kind first).
generalizeScalarType(val) ==
    IF typeIntPattern(getTypeOf(val)) THEN Scalar("int64", val.elems[1].n)
    ELSE IF typeFloatPattern(getTypeOf(val)) THEN Scalar("float64", val.elems[1].n)
    ELSE val

Ok(val) == [ok |-> TRUE, val |-> val]

Err == [ok |-> FALSE, val |-> Nil]

GenElems(elems) == [i \in 1..Len(elems) |-> generalizeAtom(elems[i])]

generalizeType(val, defType) ==
    IF val.slice THEN
        IF defType = TypeName(TRUE, "string") THEN
            IF \A i \in 1..Len(val.elems) : val.elems[i].name = "string"
            THEN Ok(Slice("string", val.elems)) ELSE Err
        ELSE IF defType.br /\ defType.name \in IntNames THEN
            IF \A i \in 1..Len(val.elems) : GenElems(val.elems)[i].name = "int64"
            THEN Ok(Slice("int64", GenElems(val.elems))) ELSE Err
        ELSE IF defType.br /\ defType.name \in FloatNames THEN
            IF \A i \in 1..Len(val.elems) : GenElems(val.elems)[i].name = "float64"
            THEN Ok(Slice("float64", GenElems(val.elems))) ELSE Err
        ELSE IF defType = TypeName(TRUE, "bool") THEN
            IF \A i \in 1..Len(val.elems) : val.elems[i].name = "bool"
            THEN Ok(Slice("bool", val.elems)) ELSE Err
        ELSE Err
    ELSE Ok(generalizeScalarType(val))

\* A typed slice becomes a []interface{} holding the same elements.
maybeMakeInterfaceList(val) ==
    IF val = Nil THEN Nil
    ELSE IF val.slice THEN Slice("", val.elems)
    ELSE val

(***************************************************************************)
(* Maps: the data tree and the default mapping                             *)
(***************************************************************************)
NoKids == [k \in {} |-> Nil]

\* map[interface{}]interface{}: a section of the data tree.
Map(kids) == [kind |-> "map", kids |-> kids]

\* A value stored in a section.
Leaf(val) == [kind |-> "leaf", val |-> val]

\* DefaultMapping: a section of the schema.
DefaultMapping(kids) == [kind |-> "mapping", kids |-> kids]

\* DefaultEntry; Validator is the name of a validator, "" for nil.
DefaultEntry(default, validator) ==
    [kind |-> "entry", Default |-> default, Validator |-> validator]

\* struct{}{}, the value Reset stores in the default mapping.
EmptyStruct == [kind |-> "struct"]

\* Results of the lookups in the default mapping.
NoSection == [kind |-> "nil"]

NoEntry == [kind |-> "nil"]

Panicked == [kind |-> "panic"]

\* m[k] = node
Put(m, k, node) ==
    [m EXCEPT !.kids = [x \in (DOMAIN m.kids) \cup {k} |->
                           IF x = k THEN node ELSE m.kids[x]]]

\* A delete that is left out.
Delete_Kept(m, k) == m

\* delete(m, k)
Delete(m, k) ==
    [m EXCEPT !.kids = [x \in (DOMAIN m.kids) \ {k} |-> m.kids[x]]]

\* The node at a path of segments below root.
RECURSIVE NodeAt(_, _)
NodeAt(root, path) ==
    IF path = <<>> THEN root ELSE NodeAt(root.kids[path[1]], Tail(path))

\* root with the node at path (a map) replaced by node.
RECURSIVE ReplaceAt(_, _, _)
ReplaceAt(root, path, node) ==
    IF path = <<>> THEN node
    ELSE Put(root, path[1], ReplaceAt(root.kids[path[1]], Tail(path), node))

RECURSIVE getDefaultSectionByKeys(_, _)
getDefaultSectionByKeys(keys, defaults) ==
    IF keys = <<>> THEN defaults
    ELSE LET hasChild == keys[1] \in DOMAIN defaults.kids
             placeHolderFound == manyMarker \in DOMAIN defaults.kids
             child == IF hasChild THEN defaults.kids[keys[1]]
                      ELSE defaults.kids[manyMarker]
         IN  IF ~hasChild /\ ~placeHolderFound THEN NoSection
             ELSE IF child.kind # "mapping" THEN NoSection
             ELSE getDefaultSectionByKeys(Tail(keys), child)

getDefaultByKeys(keys, defaults) ==
    IF keys = <<>> THEN NoEntry
    ELSE LET section == getDefaultSectionByKeys(SubSeq(keys, 1, Len(keys) - 1), defaults)
             lastKey == keys[Len(keys)]
         IN  IF section = NoSection THEN NoEntry
             ELSE IF lastKey = manyMarker THEN Panicked
             ELSE IF lastKey \notin DOMAIN section.kids THEN NoEntry
             ELSE IF section.kids[lastKey].kind # "entry" THEN NoEntry
             ELSE section.kids[lastKey]

getDefaultByKey(key, defaults) == getDefaultByKeys(Split(key), defaults)

\* keys(): the paths (sequences of segments) of all leaves below root.
RECURSIVE LeafPaths(_, _)
LeafPaths(root, prefix) ==
    UNION { IF root.kids[k].kind = "map"
            THEN LeafPaths(root.kids[k], Append(prefix, k))
            ELSE {Append(prefix, k)} : k \in DOMAIN root.kids }

\* The validators the schemas of the model use ("" is a nil Validator).
\* IntMax2 is an IntRangeValidator that rejects numbers above the range.
ValidatorOk(validator, val) ==
    IF validator = "IntMax2" THEN \A i \in 1..Len(val.elems) : val.elems[i].n <= 2
    ELSE TRUE

\* A mergeDefaults that applies the template to every key of the base, the
\* keys the overlay declares by name included.
RECURSIVE mergeDefaults_TemplateWins(_, _, _, _)
mergeDefaults_TemplateWins(base, overlay, defaultKeys, prefix) ==
    LET lit == (DOMAIN overlay.kids) \ {manyMarker}
        many == IF manyMarker \in DOMAIN overlay.kids
                THEN (DOMAIN base.kids) \ {manyMarker} ELSE {}
        overlayChild(k) == IF k \in many THEN overlay.kids[manyMarker] ELSE overlay.kids[k]
        isSec(k) == overlayChild(k).kind = "mapping"
        isNew(k) == overlayChild(k).kind = "entry" /\ k \notin DOMAIN base.kids
        baseSection(k) == IF k \in DOMAIN base.kids /\ base.kids[k].kind = "map"
                          THEN base.kids[k] ELSE Map(NoKids)
        sub(k) == mergeDefaults_TemplateWins(baseSection(k), overlayChild(k), defaultKeys,
                                             prefixKey(prefix, k))
        fixedDefault(k) == generalizeType(maybeMakeInterfaceList(overlayChild(k).Default),
                                          getTypeOf(overlayChild(k).Default))
        touched == {k \in lit \cup many : isSec(k) \/ isNew(k)}
    IN  [ok |-> \A k \in touched : IF isSec(k) THEN sub(k).ok ELSE fixedDefault(k).ok,
         base |-> [base EXCEPT !.kids =
                     [k \in (DOMAIN base.kids) \cup touched |->
                        IF k \in touched
                        THEN IF isSec(k) THEN sub(k).base ELSE Leaf(fixedDefault(k).val)
                        ELSE base.kids[k]]],
         defaultKeys |-> defaultKeys
                         \cup UNION {sub(k).defaultKeys : k \in {x \in touched : isSec(x)}}
                         \cup {prefixKey(prefix, k) : k \in {x \in touched : isNew(x)}}]

\* A mergeDefaults that fills in the entries the overlay declares by name
\* only, and leaves the sections the template matches as they are.
RECURSIVE mergeDefaults_LiteralOnly(_, _, _, _)
mergeDefaults_LiteralOnly(base, overlay, defaultKeys, prefix) ==
    LET lit == (DOMAIN overlay.kids) \ {manyMarker}
        isSec(k) == overlay.kids[k].kind = "mapping"
        isNew(k) == overlay.kids[k].kind = "entry" /\ k \notin DOMAIN base.kids
        baseSection(k) == IF k \in DOMAIN base.kids /\ base.kids[k].kind = "map"
                          THEN base.kids[k] ELSE Map(NoKids)
        sub(k) == mergeDefaults_LiteralOnly(baseSection(k), overlay.kids[k], defaultKeys,
                                            prefixKey(prefix, k))
        fixedDefault(k) == generalizeType(maybeMakeInterfaceList(overlay.kids[k].Default),
                                          getTypeOf(overlay.kids[k].Default))
        touched == {k \in lit : isSec(k) \/ isNew(k)}
    IN  [ok |-> \A k \in touched : IF isSec(k) THEN sub(k).ok ELSE fixedDefault(k).ok,
         base |-> [base EXCEPT !.kids =
                     [k \in (DOMAIN base.kids) \cup touched |->
                        IF k \in touched
                        THEN IF isSec(k) THEN sub(k).base ELSE Leaf(fixedDefault(k).val)
                        ELSE base.kids[k]]],
         defaultKeys |-> defaultKeys
                         \cup UNION {sub(k).defaultKeys : k \in {x \in touched : isSec(x)}}
                         \cup {prefixKey(prefix, k) : k \in {x \in touched : isNew(x)}}]

\* A mergeDefaults that does not record the keys it fills in.
RECURSIVE mergeDefaults_NoRecord(_, _, _, _)
mergeDefaults_NoRecord(base, overlay, defaultKeys, prefix) ==
    LET lit == (DOMAIN overlay.kids) \ {manyMarker}
        many == IF manyMarker \in DOMAIN overlay.kids
                THEN (DOMAIN base.kids) \ (DOMAIN overlay.kids) ELSE {}
        overlayChild(k) == IF k \in lit THEN overlay.kids[k] ELSE overlay.kids[manyMarker]
        isSec(k) == overlayChild(k).kind = "mapping"
        isNew(k) == overlayChild(k).kind = "entry" /\ k \notin DOMAIN base.kids
        baseSection(k) == IF k \in DOMAIN base.kids /\ base.kids[k].kind = "map"
                          THEN base.kids[k] ELSE Map(NoKids)
        sub(k) == mergeDefaults_NoRecord(baseSection(k), overlayChild(k), defaultKeys,
                                         prefixKey(prefix, k))
        fixedDefault(k) == generalizeType(maybeMakeInterfaceList(overlayChild(k).Default),
                                          getTypeOf(overlayChild(k).Default))
        touched == {k \in lit \cup many : isSec(k) \/ isNew(k)}
    IN  [ok |-> \A k \in touched : IF isSec(k) THEN sub(k).ok ELSE fixedDefault(k).ok,
         base |-> [base EXCEPT !.kids =
                     [k \in (DOMAIN base.kids) \cup touched |->
                        IF k \in touched
                        THEN IF isSec(k) THEN sub(k).base ELSE Leaf(fixedDefault(k).val)
                        ELSE base.kids[k]]],
         defaultKeys |-> defaultKeys]

\* mergeDefaults: every overlay key touches its own set of base keys (the
\* marker: the base keys the overlay does not name), so the loop's result
\* does not depend on the order in which the map is walked.
RECURSIVE mergeDefaults(_, _, _, _)
mergeDefaults(base, overlay, defaultKeys, prefix) ==
    LET lit == (DOMAIN overlay.kids) \ {manyMarker}
        many == IF manyMarker \in DOMAIN overlay.kids
                THEN (DOMAIN base.kids) \ (DOMAIN overlay.kids) ELSE {}
        overlayChild(k) == IF k \in lit THEN overlay.kids[k] ELSE overlay.kids[manyMarker]
        isSec(k) == overlayChild(k).kind = "mapping"
        isNew(k) == overlayChild(k).kind = "entry" /\ k \notin DOMAIN base.kids
        baseSection(k) == IF k \in DOMAIN base.kids /\ base.kids[k].kind = "map"
                          THEN base.kids[k] ELSE Map(NoKids)
        sub(k) == mergeDefaults(baseSection(k), overlayChild(k), defaultKeys, prefixKey(prefix, k))
        fixedDefault(k) == generalizeType(maybeMakeInterfaceList(overlayChild(k).Default),
                                          getTypeOf(overlayChild(k).Default))
        touched == {k \in lit \cup many : isSec(k) \/ isNew(k)}
    IN  [ok |-> \A k \in touched : IF isSec(k) THEN sub(k).ok ELSE fixedDefault(k).ok,
         base |-> [base EXCEPT !.kids =
                     [k \in (DOMAIN base.kids) \cup touched |->
                        IF k \in touched
                        THEN IF isSec(k) THEN sub(k).base ELSE Leaf(fixedDefault(k).val)
                        ELSE base.kids[k]]],
         defaultKeys |-> defaultKeys
                         \cup UNION {sub(k).defaultKeys : k \in {x \in touched : isSec(x)}}
                         \cup {prefixKey(prefix, k) : k \in {x \in touched : isNew(x)}}]

\* A check of the leaves that does not call the Validator of the entry.
CheckLeaf_NoValidator(child, key, defaults) ==
    LET fullKey == Join(key)
        defaultEntry == getDefaultByKey(fullKey, defaults)
        defType == getTypeOf(defaultEntry.Default)
        valType == getTypeOf(child)
        generalizedChild == generalizeType(child, defType)
    IN  IF defaultEntry = Panicked THEN [res |-> "panic", val |-> Nil]
        ELSE IF defaultEntry = NoEntry THEN [res |-> "err", val |-> Nil]
        ELSE IF defType = TypeName(FALSE, "") THEN [res |-> "err", val |-> Nil]
        ELSE IF ~isCompatibleType(valType, defType) THEN [res |-> "err", val |-> Nil]
        ELSE IF ~generalizedChild.ok THEN [res |-> "err", val |-> Nil]
        ELSE [res |-> "ok", val |-> generalizedChild.val]

\* The function validationChecker hands to keys(), for the leaf at `key`.
CheckLeaf(child, key, defaults) ==
    LET fullKey == Join(key)
        defaultEntry == getDefaultByKey(fullKey, defaults)
        defType == getTypeOf(defaultEntry.Default)
        valType == getTypeOf(child)
        generalizedChild == generalizeType(child, defType)
    IN  IF defaultEntry = Panicked THEN [res |-> "panic", val |-> Nil]
        ELSE IF defaultEntry = NoEntry THEN [res |-> "err", val |-> Nil]
        ELSE IF defType = TypeName(FALSE, "") THEN [res |-> "err", val |-> Nil]
        ELSE IF ~isCompatibleType(valType, defType) THEN [res |-> "err", val |-> Nil]
        ELSE IF ~generalizedChild.ok THEN [res |-> "err", val |-> Nil]
        ELSE IF ~ValidatorOk(defaultEntry.Validator, generalizedChild.val)
             THEN [res |-> "err", val |-> Nil]
        ELSE [res |-> "ok", val |-> generalizedChild.val]

\* A validationChecker that leaves the leaves as the decoder gave them.
Generalized_Raw(root, prefix, defaults) == root

\* The tree with every leaf replaced by its generalized value.
RECURSIVE Generalized(_, _, _)
Generalized(root, prefix, defaults) ==
    [root EXCEPT !.kids =
        [k \in DOMAIN root.kids |->
            IF root.kids[k].kind = "map"
            THEN Generalized(root.kids[k], Append(prefix, k), defaults)
            ELSE Leaf(CheckLeaf(root.kids[k].val, Append(prefix, k), defaults).val)]]

\* A validationChecker that fills in the defaults before it has checked the
\* leaves of the tree.
validationChecker_DefaultsFirst(root, defaults, defaultKeys) ==
    LET leaves == LeafPaths(root, <<>>)
        check(p) == CheckLeaf(NodeAt(root, p).val, p, defaults).res
        merged == mergeDefaults(Generalized(root, <<>>, defaults), defaults, defaultKeys, EmptyStr)
    IN  IF \E p \in leaves : check(p) = "panic"
        THEN [res |-> "panic", root |-> root, defaultKeys |-> defaultKeys]
        ELSE IF \E p \in leaves : check(p) = "err"
        THEN [res |-> "err", root |-> root, defaultKeys |-> merged.defaultKeys]
        ELSE [res |-> IF merged.ok THEN "ok" ELSE "err",
              root |-> merged.base, defaultKeys |-> merged.defaultKeys]

\* validationChecker: res is "ok", "err" or "panic"; on "ok" root is the
\* normalized tree with the defaults filled in.
validationChecker(root, defaults, defaultKeys) ==
    LET leaves == LeafPaths(root, <<>>)
        check(p) == CheckLeaf(NodeAt(root, p).val, p, defaults).res
        merged == mergeDefaults(Generalized(root, <<>>, defaults), defaults, defaultKeys, EmptyStr)
    IN  IF \E p \in leaves : check(p) = "panic"
        THEN [res |-> "panic", root |-> root, defaultKeys |-> defaultKeys]
        ELSE IF \E p \in leaves : check(p) = "err"
        THEN [res |-> "err", root |-> root, defaultKeys |-> defaultKeys]
        ELSE [res |-> IF merged.ok THEN "ok" ELSE "err",
              root |-> merged.base, defaultKeys |-> merged.defaultKeys]

\* splitKeyRecursive; the parent map is named by its path `at` below the
\* root of the data tree.
NotFound == [found |-> FALSE, parent |-> <<>>, base |-> EmptyStr]

RECURSIVE splitKeyRecursive(_, _, _, _)
splitKeyRecursive(keys, root, sectionAllowed, at) ==
    IF keys = <<>> THEN NotFound
    ELSE IF keys[1] \notin DOMAIN root.kids THEN NotFound
    ELSE LET child == root.kids[keys[1]]
         IN  IF child.kind # "map"
             THEN IF Len(keys) > 1 THEN NotFound
                  ELSE [found |-> TRUE, parent |-> at, base |-> keys[1]]
             ELSE IF sectionAllowed /\ Len(keys) = 1
                  THEN [found |-> TRUE, parent |-> at, base |-> keys[1]]
                  ELSE splitKeyRecursive(Tail(keys), child, sectionAllowed, Append(at, keys[1]))

splitKey(memory, key, sectionAllowed) ==
    splitKeyRecursive(Split(key), memory, sectionAllowed, <<>>)

\* punchHole: root with the missing sections on the way to key created.
\* The parent it returns is the map at all but the last segment of key.
RECURSIVE punchHole(_, _)
punchHole(key, root) ==
    IF Len(key) <= 1 THEN [root |-> root, err |-> FALSE]
    ELSE LET child == IF key[1] \in DOMAIN root.kids THEN root.kids[key[1]]
                      ELSE Map(NoKids)
             rest == punchHole(Tail(key), child)
         IN  IF child.kind # "map" THEN [root |-> root, err |-> TRUE]
             ELSE [root |-> Put(root, key[1], rest.root), err |-> rest.err]

(***************************************************************************)
(* Bounds, schemas and inputs                                              *)
(***************************************************************************)
\* How many callbacks are registered with AddEvent in one behaviour.
MaxEvents == 2

\* The integers Set is called with are 1..MaxInt.
MaxInt == 3

A == <<"a">>
B == <<"b">>
L == <<"l">>
M == <<"m">>
V == <<"v">>
X == <<"x">>

I64(n) == Scalar("int64", n)

GoInt(n) == Scalar("int", n)

GoStr(n) == Scalar("string", n)

\* The schema of the stores:  a.b (an int with a range validator),
\* a.__many__.v (an int below a wildcard section) and l (a list of ints).
Schema(bDefault) ==
    DefaultMapping(
        (A :> DefaultMapping(
                (B :> DefaultEntry(GoInt(bDefault), "IntMax2")) @@
                (manyMarker :> DefaultMapping(V :> DefaultEntry(GoInt(1), ""))))) @@
        (L :> DefaultEntry(Slice("int", <<Atom("int", 1), Atom("int", 2)>>), "")))

SchemaV0 == Schema(1)

\* A schema that differs from SchemaV0 in one default.
SchemaV1 == Schema(2)

\* A schema whose wildcard section has two leaves, v and x, beside the
\* literal leaf a.b.
SchemaV2 ==
    DefaultMapping(
        A :> DefaultMapping(
                (B :> DefaultEntry(GoInt(1), "IntMax2")) @@
                (manyMarker :> DefaultMapping((V :> DefaultEntry(GoInt(1), "")) @@
                                              (X :> DefaultEntry(GoInt(1), ""))))))

\* A schema with a section of literal name inside a section: a.b and a.x.v.
SchemaV3 ==
    DefaultMapping(
        A :> DefaultMapping(
                (B :> DefaultEntry(GoInt(1), "")) @@
                (X :> DefaultMapping(V :> DefaultEntry(GoInt(1), "")))))

\* Keys, as the strings the callers pass.
KeyAB == <<"a", ".", "b">>
KeyAMV == <<"a", ".", "m", ".", "v">>
KeyL == <<"l">>
KeyB == <<"b">>
KeyMV == <<"m", ".", "v">>

\* Decoded inputs: a version tag and a raw tree, as a YAML decoder returns
\* them (integers are of type int, lists of type []interface{}).
EmptyTree == Map(NoKids)

TreeB2 == Map(A :> Map(B :> Leaf(GoInt(2))))

TreeMV2 == Map(A :> Map(M :> Map(V :> Leaf(GoInt(2)))))

TreeBad == Map(X :> Leaf(GoInt(1)))

\* a.b = 3, which the validator of a.b rejects.
TreeB3 == Map(A :> Map(B :> Leaf(GoInt(3))))

\* An input with an empty section below the wildcard section.
TreeM0 == Map(A :> Map(M :> Map(NoKids)))

\* An input with a section that is named like the marker.
TreeMany == Map(A :> Map(manyMarker :> Map(V :> Leaf(GoInt(2)))))

\* The handles: the root store, a section view of it, and three stores that
\* are merged into the root: over and over2 were opened with the default
\* mapping object of the root, alien with another one.
Handles == {"root", "view", "over", "over2", "alien"}

(***************************************************************************)
(* State                                                                   *)
(***************************************************************************)
VARIABLES
    schemas,    \* the DefaultMapping objects, by reference
    heap,       \* the data tree objects (cfg.memory is a reference to one)
    cfg,        \* the Config struct of every handle
    mu,         \* the mutex of every store family: TRUE when locked
    pc,         \* where the calling thread is: "idle", "firing", "blocked"
    pending,    \* the callbacks the running operation has still to call
    fired,      \* the callbacks the last operation has called, in order
    cur,        \* the last operation the calling thread started
    nfn         \* the number of callback functions created so far

vars == <<schemas, heap, cfg, mu, pc, pending, fired, cur, nfn>>

\* A handle that does not exist (yet).
NoConfig ==
    [open |-> FALSE, mu |-> "", section |-> EmptyStr, defaults |-> 0, memory |-> 0,
     callbackCount |-> 0, changeCallbacks |-> NoKids,
     defaultKeys |-> {}, defaultKeysNil |-> TRUE, version |-> 0]

\* keyChangedEvent
Event(fn, key) == [fn |-> fn, key |-> key]

Memory(c) == heap[c.memory]

Defaults(c) == schemas[c.defaults]

\* The ascending sequence of a finite set of numbers.
RECURSIVE SortNat(_)
SortNat(S) ==
    IF S = {} THEN <<>>
    ELSE LET m == CHOOSE x \in S : \A y \in S : x <= y
         IN  <<m>> \o SortNat(S \ {m})

\* sort.Strings of a finite set of strings.
RECURSIVE SortStrings(_)
SortStrings(S) ==
    IF S = {} THEN <<>>
    ELSE LET m == CHOOSE x \in S : \A y \in S \ {x} : StrLess(x, y)
         IN  <<m>> \o SortStrings(S \ {m})

\* cfg.keys() on a handle with this section and data tree.
keys(section, memory) ==
    SortStrings({k \in {Join(p) : p \in LeafPaths(memory, <<>>)} : HasPrefix(k, section)})

\* A get that answers nil for a key it does not know.
get_NoPanic(section, memory, defaults, rawKey) ==
    LET key == prefixKey(section, rawKey)
        sp == splitKey(memory, key, FALSE)
        defEntry == getDefaultByKey(key, defaults)
    IN  IF sp.found THEN [res |-> "ok", val |-> NodeAt(memory, sp.parent).kids[sp.base].val]
        ELSE IF defEntry.kind = "entry" THEN [res |-> "ok", val |-> defEntry.Default]
        ELSE [res |-> "ok", val |-> Nil]

\* cfg.get: res is "ok" or "panic".
get(section, memory, defaults, rawKey) ==
    LET key == prefixKey(section, rawKey)
        sp == splitKey(memory, key, FALSE)
        defEntry == getDefaultByKey(key, defaults)
    IN  IF sp.found THEN [res |-> "ok", val |-> NodeAt(memory, sp.parent).kids[sp.base].val]
        ELSE IF defEntry.kind = "entry" THEN [res |-> "ok", val |-> defEntry.Default]
        ELSE [res |-> "panic", val |-> Nil]

\* Get on a handle.
Get(h, key) == get(cfg[h].section, Memory(cfg[h]), Defaults(cfg[h]), key)

\* Get on a handle once the step is taken.
GetAfter(h, key) ==
    get(cfg'[h].section, heap'[cfg'[h].memory], schemas'[cfg'[h].defaults], key)

\* IsDefault on a handle (a lookup in a nil map finds nothing).
IsDefault(h, key) == key \in cfg[h].defaultKeys

\* The events of one bucket; a bucket is walked in ascending id order here
\* (Go leaves the order of a map walk open).
BucketEvents(bucket) == [i \in 1..Cardinality(DOMAIN bucket) |-> bucket[SortNat(DOMAIN bucket)[i]]]

\* gatherCallbacks that forgets the callbacks registered for every key.
gatherCallbacks_KeyOnly(c, key) ==
    IF HasPrefix(key, c.section) /\ key \in DOMAIN c.changeCallbacks
    THEN BucketEvents(c.changeCallbacks[key]) ELSE <<>>

gatherCallbacks(c, key) ==
    LET of(ckey) == IF (ckey = EmptyStr \/ HasPrefix(ckey, c.section))
                       /\ ckey \in DOMAIN c.changeCallbacks
                    THEN BucketEvents(c.changeCallbacks[ckey]) ELSE <<>>
    IN  of(key) \o of(EmptyStr)

\* setLocked between Lock and Unlock: the result, the data tree and the
\* default keys it leaves, and the callbacks it has gathered.
setLocked(c, memory, defaults, rawKey, val) ==
    LET key == prefixKey(c.section, rawKey)
        sp == splitKey(memory, key, FALSE)
        def == getDefaultByKey(key, defaults)
        segs == Split(key)
        hole == punchHole(segs, memory)
        parent == IF sp.found THEN sp.parent ELSE SubSeq(segs, 1, Len(segs) - 1)
        base == IF sp.found THEN sp.base ELSE segs[Len(segs)]
        \* parent[base] = def.Default
        seeded == IF sp.found THEN memory
                  ELSE ReplaceAt(hole.root, parent,
                                 Put(NodeAt(hole.root, parent), base, Leaf(def.Default)))
        stored == NodeAt(seeded, parent).kids[base].val
        \* delete(cfg.defaultKeys, key)
        remembered == c.defaultKeys \ {key}
        out(res, m, dk, cbs) == [res |-> res, memory |-> m, defaultKeys |-> dk, callbacks |-> cbs]
    IN  IF ~sp.found /\ def.kind # "entry" THEN out("panic", memory, c.defaultKeys, <<>>)
        ELSE IF ~sp.found /\ hole.err THEN out("err", hole.root, c.defaultKeys, <<>>)
        ELSE IF ~isCompatibleType(getTypeOf(stored), getTypeOf(val))
             THEN out("err", seeded, c.defaultKeys, <<>>)
        ELSE IF val = stored THEN out("same", seeded, remembered, <<>>)
        ELSE IF def.kind # "entry" THEN out("panic", seeded, remembered, <<>>)
        ELSE IF ~ValidatorOk(def.Validator, val) THEN out("err", seeded, remembered, <<>>)
        ELSE out("ok",
                 ReplaceAt(seeded, parent, Put(NodeAt(seeded, parent), base, Leaf(val))),
                 remembered, gatherCallbacks(c, key))

\* open: the Config a successful Open returns.
open(version, memory, defaults, schemaRef, memRef, family) ==
    LET checked == validationChecker(memory, defaults, {})
    IN  [res |-> checked.res, memory |-> checked.root,
         cfg |-> [open |-> TRUE, mu |-> family, section |-> EmptyStr,
                  defaults |-> schemaRef, memory |-> memRef,
                  callbackCount |-> 0, changeCallbacks |-> NoKids,
                  defaultKeys |-> checked.defaultKeys, defaultKeysNil |-> FALSE,
                  version |-> version]]

(***************************************************************************)
(* Operations                                                              *)
(***************************************************************************)
\* What the calling thread remembers of its last call; lost is the set of
\* keys a Reset has taken out of the data tree.
Call(op, h, key, arg, res) ==
    [op |-> op, h |-> h, key |-> key, arg |-> arg, res |-> res, lost |-> {}]

\* The inputs Open and Reload are given: a name, the version tag and the
\* tree the decoder returns ("nil" is the nil decoder).
Inputs ==
    [nil |-> [version |-> 0, tree |-> EmptyTree],
     b2  |-> [version |-> 7, tree |-> TreeB2],
     mv2 |-> [version |-> 7, tree |-> TreeMV2],
     bad |-> [version |-> 7, tree |-> TreeBad],
     b3  |-> [version |-> 7, tree |-> TreeB3],
     m0  |-> [version |-> 7, tree |-> TreeM0],
     many |-> [version |-> 7, tree |-> TreeMany],
     \* l given as a scalar int, as a string and as a list of ints, and a
     \* list given for the scalar key a.b
     l1 |-> [version |-> 7, tree |-> Map(L :> Leaf(GoInt(1)))],
     lstr |-> [version |-> 7, tree |-> Map(L :> Leaf(GoStr(1)))],
     llist |-> [version |-> 7, tree |-> Map(L :> Leaf(Slice("", <<Atom("int", 2)>>)))],
     blist |-> [version |-> 7,
                tree |-> Map(A :> Map(B :> Leaf(Slice("", <<Atom("int", 2)>>))))],
     \* a.x.v of the nested schema
     xv2 |-> [version |-> 7, tree |-> Map(A :> Map(X :> Map(V :> Leaf(GoInt(2)))))],
     garbage |-> [version |-> 0, tree |-> EmptyTree]]

MemIds == 1..6

\* A data tree object no open handle refers to.
FreeMem == CHOOSE i \in MemIds : \A h \in Handles : ~(cfg[h].open /\ cfg[h].memory = i)

\* The calling thread can enter an operation of handle h.
CanCall(h) == pc = "idle" /\ cfg[h].open /\ ~mu[cfg[h].mu]

\* How the stores were opened: the input, the default mapping object, the
\* data tree object and the family (mutex) of each.
Opened ==
    [root  |-> [in |-> "nil", defaults |-> 1, memory |-> 1, mu |-> "A"],
     over  |-> [in |-> "b2",  defaults |-> 1, memory |-> 2, mu |-> "B"],
     over2 |-> [in |-> "mv2", defaults |-> 1, memory |-> 3, mu |-> "C"],
     alien |-> [in |-> "b2",  defaults |-> 2, memory |-> 4, mu |-> "D"]]

Families == {"A", "B", "C", "D"}

\* The state after construction: the root store is opened from an empty or
\* from a non-empty input, the stores to merge from are opened as well.
Init ==
    \E inA \in {"nil", "b2"} :
        LET objects == (1 :> SchemaV0) @@ (2 :> SchemaV1) @@ (3 :> SchemaV2) @@ (4 :> SchemaV3)
            how(h) == IF h = "root"
                      THEN [in |-> inA, defaults |-> 1, memory |-> 1, mu |-> "A"]
                      ELSE Opened[h]
            made(h) == open(Inputs[how(h).in].version, Inputs[how(h).in].tree,
                            objects[how(h).defaults], how(h).defaults,
                            how(h).memory, how(h).mu)
            stores == Handles \ {"view"}
        IN  /\ \A h \in stores : made(h).res = "ok"
            /\ schemas = objects
            /\ heap = [i \in MemIds |->
                         IF \E h \in stores : how(h).memory = i
                         THEN made(CHOOSE h \in stores : how(h).memory = i).memory
                         ELSE EmptyTree]
            /\ cfg = [h \in Handles |-> IF h = "view" THEN NoConfig ELSE made(h).cfg]
            /\ mu = [f \in Families |-> FALSE]
            /\ pc = "idle"
            /\ pending = <<>>
            /\ fired = <<>>
            /\ cur = Call("Open", "root", EmptyStr, inA, "ok")
            /\ nfn = 0

\* The callbacks called before the deferred Unlock has run.
CallsUnderLock_Always(op) == TRUE

\* The order of the deferred calls: setLocked and Merge defer the loop over
\* the callbacks first and the Unlock second, so the Unlock runs first;
\* Reload defers the Unlock and calls the callbacks in its body.
CallsUnderLock(op) == op = "Reload"

\* The calling thread leaves the critical section of `op` with these
\* callbacks to call.
Leave(h, callbacks, op) ==
    /\ pending' = callbacks
    /\ fired' = <<>>
    /\ pc' = IF callbacks = <<>> THEN "idle" ELSE "firing"
    /\ mu' = [mu EXCEPT ![cfg[h].mu] = CallsUnderLock(op) /\ callbacks # <<>>]

\* Set, SetInt, SetString, ...: setLocked(key, val) on handle h.
Set(h, key, val) ==
    /\ CanCall(h)
    /\ \E r \in {setLocked(cfg[h], Memory(cfg[h]), Defaults(cfg[h]), key, val)} :
           /\ heap' = [heap EXCEPT ![cfg[h].memory] = r.memory]
           /\ cfg' = [cfg EXCEPT ![h].defaultKeys =
                         IF cfg[h].defaultKeysNil THEN {} ELSE r.defaultKeys]
           /\ Leave(h, r.callbacks, "Set")
           /\ cur' = Call("Set", h, key, "", r.res)
    /\ UNCHANGED <<schemas, nfn>>

\* AddEvent(key, fn) on handle h, with a function not registered before.
AddEvent(h, key) ==
    /\ CanCall(h)
    /\ nfn < MaxEvents
    /\ LET c == cfg[h]
           event == Event(nfn + 1, key)
           bucketKey == IF key # EmptyStr THEN prefixKey(c.section, key) ELSE key
           valid == key = EmptyStr \/ getDefaultByKey(bucketKey, Defaults(c)).kind = "entry"
           callbacks == IF bucketKey \in DOMAIN c.changeCallbacks
                        THEN c.changeCallbacks[bucketKey] ELSE NoKids
           oldCount == c.callbackCount
       IN  IF valid
           THEN /\ cfg' = [cfg EXCEPT
                             ![h].changeCallbacks =
                                 [k \in (DOMAIN c.changeCallbacks) \cup {bucketKey} |->
                                     IF k = bucketKey
                                     THEN [i \in (DOMAIN callbacks) \cup {oldCount} |->
                                              IF i = oldCount THEN event ELSE callbacks[i]]
                                     ELSE c.changeCallbacks[k]],
                             ![h].callbackCount = oldCount + 1]
                /\ nfn' = nfn + 1
                /\ cur' = Call("AddEvent", h, key, "", "ok")
           ELSE /\ UNCHANGED <<cfg, nfn>>
                /\ cur' = Call("AddEvent", h, key, "", "panic")
    /\ fired' = <<>>
    /\ UNCHANGED <<schemas, heap, mu, pc, pending>>

\* The running operation calls its next callback: callback.fn(callback.key).
\* A callback may call back into the store (reenter), as the one of
\* TestAddChangeSignal does with cfg.String: it then has to take the mutex.
Fire(reenter) ==
    /\ pc = "firing"
    /\ LET e == Head(pending)
           f == cfg[cur.h].mu
       IN  /\ fired' = Append(fired, [fn |-> e.fn, arg |-> e.key, locked |-> mu[f]])
           /\ IF reenter /\ mu[f]
              THEN /\ pc' = "blocked"
                   /\ UNCHANGED <<pending, mu>>
              ELSE /\ pending' = Tail(pending)
                   /\ pc' = IF Tail(pending) = <<>> THEN "idle" ELSE "firing"
                   /\ mu' = IF Tail(pending) = <<>> THEN [mu EXCEPT ![f] = FALSE] ELSE mu
    /\ UNCHANGED <<schemas, heap, cfg, cur, nfn>>

\* A Section whose view starts without any callback.
Section_NoCopy(h, section) ==
    /\ CanCall(h)
    /\ ~cfg["view"].open
    /\ cfg' = [cfg EXCEPT !["view"] =
                  [open |-> TRUE, mu |-> cfg[h].mu, section |-> section,
                   defaults |-> cfg[h].defaults, memory |-> cfg[h].memory,
                   callbackCount |-> cfg[h].callbackCount, changeCallbacks |-> NoKids,
                   defaultKeys |-> {}, defaultKeysNil |-> TRUE, version |-> 0]]
    /\ cur' = Call("Section", h, section, "", "ok")
    /\ fired' = <<>>
    /\ UNCHANGED <<schemas, heap, mu, pc, pending, nfn>>

\* Section(section) on handle h: the new handle is "view".  The callbacks of
\* h are copied in the order of a map walk (any order that keeps a bucket
\* together), which decides the ids of the copies.
Section(h, section) ==
    /\ CanCall(h)
    /\ ~cfg["view"].open
    /\ LET c == cfg[h]
           pairs == UNION {{<<k, i>> : i \in DOMAIN c.changeCallbacks[k]} :
                           k \in DOMAIN c.changeCallbacks}
           n == Cardinality(pairs)
       IN  \E walk \in [1..n -> pairs] :
               /\ \A i, j \in 1..n : walk[i] = walk[j] => i = j
               /\ \A i, j, k \in 1..n :
                      i < j /\ j < k /\ walk[i][1] = walk[k][1] => walk[j][1] = walk[i][1]
               /\ cfg' = [cfg EXCEPT !["view"] =
                     [open |-> TRUE, mu |-> c.mu, section |-> section,
                      defaults |-> c.defaults, memory |-> c.memory,
                      callbackCount |-> c.callbackCount + n,
                      changeCallbacks |->
                          [k \in DOMAIN c.changeCallbacks |->
                              [id \in {c.callbackCount + i - 1 :
                                          i \in {j \in 1..n : walk[j][1] = k}} |->
                                  c.changeCallbacks[k][walk[id - c.callbackCount + 1][2]]]],
                      defaultKeys |-> {}, defaultKeysNil |-> TRUE, version |-> 0]]
    /\ cur' = Call("Section", h, section, "", "ok")
    /\ fired' = <<>>
    /\ UNCHANGED <<schemas, heap, mu, pc, pending, nfn>>

\* view = view.Section(section): Section called on the view, the handle
\* bound to the view it returns.  The new view gets the mutex, the default
\* mapping, the data tree and (under new ids) the callbacks of the old one,
\* and `section` as its section.
SectionOfView(section) ==
    /\ CanCall("view")
    /\ LET c == cfg["view"]
           pairs == UNION {{<<k, i>> : i \in DOMAIN c.changeCallbacks[k]} :
                           k \in DOMAIN c.changeCallbacks}
           n == Cardinality(pairs)
       IN  \E walk \in [1..n -> pairs] :
               /\ \A i, j \in 1..n : walk[i] = walk[j] => i = j
               /\ \A i, j, k \in 1..n :
                      i < j /\ j < k /\ walk[i][1] = walk[k][1] => walk[j][1] = walk[i][1]
               /\ cfg' = [cfg EXCEPT !["view"] =
                     [open |-> TRUE, mu |-> c.mu, section |-> section,
                      defaults |-> c.defaults, memory |-> c.memory,
                      callbackCount |-> c.callbackCount + n,
                      changeCallbacks |->
                          [k \in DOMAIN c.changeCallbacks |->
                              [id \in {c.callbackCount + i - 1 :
                                          i \in {j \in 1..n : walk[j][1] = k}} |->
                                  c.changeCallbacks[k][walk[id - c.callbackCount + 1][2]]]],
                      defaultKeys |-> {}, defaultKeysNil |-> TRUE, version |-> 0]]
    /\ cur' = Call("Section", "view", section, "", "ok")
    /\ fired' = <<>>
    /\ UNCHANGED <<schemas, heap, mu, pc, pending, nfn>>

\* Get(key) on handle h: the Unlock is deferred, a panic of get releases the
\* mutex as well.
GetCall(h, key) ==
    /\ CanCall(h)
    /\ cur' = Call("Get", h, key, "", Get(h, key).res)
    /\ Leave(h, <<>>, "Get")
    /\ UNCHANGED <<schemas, heap, cfg, nfn>>

\* h, err = Open(dec, defaults) with the default mapping object 1 and dec
\* decoding to Inputs[in] ("garbage": Decode fails): the handle is bound to
\* a new store with its own mutex, or to no store when Open fails.  (Only
\* while no view of the old store is left.)
Open(h, in) ==
    /\ pc = "idle"
    /\ ~cfg["view"].open
    /\ \E new \in {FreeMem} :
       \E made \in {open(Inputs[in].version, Inputs[in].tree, schemas[1], 1, new,
                         Opened[h].mu)} :
       LET ok == in # "garbage" /\ made.res = "ok"
       IN  /\ heap' = [i \in MemIds |->
                         IF ok /\ i = new THEN made.memory
                         ELSE IF \E g \in Handles \ {h} : cfg[g].open /\ cfg[g].memory = i
                              THEN heap[i] ELSE EmptyTree]
           /\ cfg' = [cfg EXCEPT ![h] = IF ok THEN made.cfg ELSE NoConfig]
           /\ cur' = Call("Open", h, EmptyStr, in,
                          IF in = "garbage" THEN "err" ELSE made.res)
    /\ mu' = [mu EXCEPT ![Opened[h].mu] = FALSE]
    /\ pending' = <<>>
    /\ fired' = <<>>
    /\ UNCHANGED <<schemas, pc, nfn>>

\* h, err = Open(dec, defaults) with the default mapping object `ref`.
OpenWith(h, in, ref) ==
    /\ pc = "idle"
    /\ ~cfg["view"].open
    /\ \E new \in {FreeMem} :
       \E made \in {open(Inputs[in].version, Inputs[in].tree, schemas[ref], ref, new,
                         Opened[h].mu)} :
       LET ok == in # "garbage" /\ made.res = "ok"
       IN  /\ heap' = [i \in MemIds |->
                         IF ok /\ i = new THEN made.memory
                         ELSE IF \E g \in Handles \ {h} : cfg[g].open /\ cfg[g].memory = i
                              THEN heap[i] ELSE EmptyTree]
           /\ cfg' = [cfg EXCEPT ![h] = IF ok THEN made.cfg ELSE NoConfig]
           /\ cur' = Call("Open", h, EmptyStr, in,
                          IF in = "garbage" THEN "err" ELSE made.res)
    /\ mu' = [mu EXCEPT ![Opened[h].mu] = FALSE]
    /\ pending' = <<>>
    /\ fired' = <<>>
    /\ UNCHANGED <<schemas, pc, nfn>>

\* RemoveEvent(id) on handle h.  It needs the mutex only: another thread may
\* call it while the calling thread is between two callbacks.
RemoveEvent(h, id) ==
    /\ pc \in {"idle", "firing"}
    /\ cfg[h].open
    /\ ~mu[cfg[h].mu]
    /\ LET cbs == cfg[h].changeCallbacks
           pruned(k) == [i \in (DOMAIN cbs[k]) \ {id} |-> cbs[k][i]]
       IN  cfg' = [cfg EXCEPT ![h].changeCallbacks =
                      [k \in {x \in DOMAIN cbs : DOMAIN pruned(x) # {}} |-> pruned(k)]]
    /\ UNCHANGED <<schemas, heap, mu, pc, pending, fired, cur, nfn>>

\* reflect.DeepEqual of two default mappings: a Validator that is not nil
\* is a func, and funcs are deeply equal only when both are nil; one and
\* the same map object is equal to itself.
RECURSIVE HasValidator(_)
HasValidator(node) ==
    IF node.kind = "entry" THEN node.Validator # ""
    ELSE IF node.kind = "mapping" THEN \E k \in DOMAIN node.kids : HasValidator(node.kids[k])
    ELSE FALSE

\* A Merge that does not compare the defaults.
DeepEqualDefaults_Always(refA, refB) == TRUE

DeepEqualDefaults(refA, refB) ==
    refA = refB \/ (schemas[refA] = schemas[refB] /\ ~HasValidator(schemas[refA]))

\* The loop of Merge over cfg.keys().
RECURSIVE mergeLoop(_, _, _, _, _)
\* The loop of Merge without the test of other.defaultKeys.
mergeLoop_NoSkip(c, o, ks, memory, callbacks) ==
    IF ks = <<>> THEN [res |-> "ok", memory |-> memory, callbacks |-> callbacks]
    ELSE LET key == Head(ks)
             oldVal == get(c.section, memory, Defaults(c), key)
             newVal == get(o.section, Memory(o), Defaults(o), key)
             sp == splitKey(memory, key, FALSE)
             gathered == callbacks \o gatherCallbacks(c, key)
         IN  IF oldVal.res = "panic" \/ newVal.res = "panic"
             THEN [res |-> "panic", memory |-> memory, callbacks |-> callbacks]
             ELSE IF newVal.val = oldVal.val THEN mergeLoop(c, o, Tail(ks), memory, callbacks)
             ELSE IF ~sp.found
                  THEN [res |-> "panic", memory |-> memory, callbacks |-> gathered]
             ELSE mergeLoop(c, o, Tail(ks),
                            ReplaceAt(memory, sp.parent,
                                      Put(NodeAt(memory, sp.parent), sp.base, Leaf(newVal.val))),
                            gathered)

mergeLoop(c, o, ks, memory, callbacks) ==
    IF ks = <<>> THEN [res |-> "ok", memory |-> memory, callbacks |-> callbacks]
    ELSE LET key == Head(ks)
             oldVal == get(c.section, memory, Defaults(c), key)
             newVal == get(o.section, Memory(o), Defaults(o), key)
             sp == splitKey(memory, key, FALSE)
             gathered == callbacks \o gatherCallbacks(c, key)
         IN  IF key \in o.defaultKeys THEN mergeLoop(c, o, Tail(ks), memory, callbacks)
             ELSE IF oldVal.res = "panic" \/ newVal.res = "panic"
                  THEN [res |-> "panic", memory |-> memory, callbacks |-> callbacks]
             ELSE IF newVal.val = oldVal.val THEN mergeLoop(c, o, Tail(ks), memory, callbacks)
             ELSE IF ~sp.found
                  THEN [res |-> "panic", memory |-> memory, callbacks |-> gathered]
             ELSE mergeLoop(c, o, Tail(ks),
                            ReplaceAt(memory, sp.parent,
                                      Put(NodeAt(memory, sp.parent), sp.base, Leaf(newVal.val))),
                            gathered)

\* h.Merge(o).  When the defaults differ Merge returns before it has
\* deferred the Unlock: the mutex stays locked.
Merge(h, o) ==
    /\ CanCall(h)
    /\ cfg[o].open
    /\ IF ~DeepEqualDefaults(cfg[h].defaults, cfg[o].defaults)
       THEN /\ mu' = [mu EXCEPT ![cfg[h].mu] = TRUE]
            /\ cur' = Call("Merge", h, EmptyStr, o, "err")
            /\ pending' = <<>>
            /\ fired' = <<>>
            /\ UNCHANGED <<heap, pc>>
       ELSE LET r == mergeLoop(cfg[h], cfg[o], keys(cfg[h].section, Memory(cfg[h])),
                               Memory(cfg[h]), <<>>)
            IN  /\ heap' = [heap EXCEPT ![cfg[h].memory] = r.memory]
                /\ Leave(h, r.callbacks, "Merge")
                /\ cur' = Call("Merge", h, EmptyStr, o, r.res)
    /\ UNCHANGED <<schemas, cfg, nfn>>

\* The callbacks Reload gathers: for every key of the new tree whose value
\* differs from the one the old tree gave.
RECURSIVE reloadLoop(_, _, _, _)
reloadLoop(c, oldMemory, newMemory, ks) ==
    IF ks = <<>> THEN [res |-> "ok", callbacks |-> <<>>]
    ELSE LET key == Head(ks)
             oldVal == get(c.section, oldMemory, Defaults(c), key)
             newVal == get(c.section, newMemory, Defaults(c), key)
             rest == reloadLoop(c, oldMemory, newMemory, Tail(ks))
         IN  IF oldVal.res = "panic" \/ newVal.res = "panic"
             THEN [res |-> "panic", callbacks |-> <<>>]
             ELSE [res |-> rest.res,
                   callbacks |-> (IF oldVal.val # newVal.val
                                  THEN gatherCallbacks(c, key) ELSE <<>>) \o rest.callbacks]

\* h.Reload(dec), dec decoding to Inputs[in] ("garbage": Decode fails).
\* The Unlock is deferred, so the callbacks are called with the mutex held.
Reload(h, in) ==
    /\ CanCall(h)
    /\ \E checked \in {validationChecker(Inputs[in].tree, Defaults(cfg[h]),
                                            cfg[h].defaultKeys)} :
       LET c == cfg[h]
           loop == reloadLoop(c, Memory(c), checked.root, keys(c.section, checked.root))
           new == FreeMem
       IN  IF in = "garbage"
           THEN /\ cur' = Call("Reload", h, EmptyStr, in, "err")
                /\ Leave(h, <<>>, "Reload")
                /\ UNCHANGED <<heap, cfg>>
           ELSE IF c.defaultKeysNil /\ checked.defaultKeys # {}
           THEN \* assignment to an entry of a nil map
                /\ cur' = Call("Reload", h, EmptyStr, in, "panic")
                /\ Leave(h, <<>>, "Reload")
                /\ UNCHANGED <<heap, cfg>>
           ELSE IF checked.res # "ok"
           THEN \* validationChecker has worked on cfg.defaultKeys itself
                /\ cur' = Call("Reload", h, EmptyStr, in, checked.res)
                /\ Leave(h, <<>>, "Reload")
                /\ cfg' = [cfg EXCEPT ![h].defaultKeys = checked.defaultKeys]
                /\ UNCHANGED heap
           ELSE /\ heap' = [i \in MemIds |->
                              IF i = new THEN checked.root
                              ELSE IF \E g \in Handles \ {h} : cfg[g].open /\ cfg[g].memory = i
                                   THEN heap[i] ELSE EmptyTree]
                /\ cfg' = [cfg EXCEPT ![h].memory = new,
                                      ![h].version = Inputs[in].version,
                                      ![h].defaultKeys = checked.defaultKeys]
                /\ cur' = Call("Reload", h, EmptyStr, in, loop.res)
                /\ Leave(h, IF loop.res = "ok" THEN loop.callbacks ELSE <<>>, "Reload")
    /\ UNCHANGED <<schemas, nfn>>

\* The keys of the leaves of a data tree.
KeySet(memory) == {Join(p) : p \in LeafPaths(memory, <<>>)}

\* h.Reset(key).
Reset(h, key) ==
    /\ CanCall(h)
    /\ LET c == cfg[h]
           fullKey == prefixKey(c.section, key)
           entry == getDefaultByKey(fullKey, Defaults(c))
           \* cfg.defaults[key] = struct{}{}
           marked == [schemas EXCEPT ![c.defaults] = Put(@, fullKey, EmptyStruct)]
           set == setLocked(c, Memory(c), marked[c.defaults], fullKey, entry.Default)
           whole == mergeDefaults(EmptyTree, Defaults(c), c.defaultKeys, c.section)
           segs == Split(fullKey)
           defaultSection == getDefaultSectionByKeys(SubSeq(segs, 1, Len(segs) - 1), Defaults(c))
           sp == splitKey(Memory(c), fullKey, TRUE)
           part == mergeDefaults(Delete(NodeAt(Memory(c), sp.parent), sp.base),
                                 defaultSection, c.defaultKeys, c.section)
           new == FreeMem
       IN  IF entry = Panicked
           THEN \* the panic of getDefaultByKeys, before any Unlock is deferred
                /\ mu' = [mu EXCEPT ![c.mu] = TRUE]
                /\ pending' = <<>>
                /\ fired' = <<>>
                /\ cur' = Call("Reset", h, key, "", "panic")
                /\ UNCHANGED <<schemas, heap, cfg, pc>>
           ELSE IF entry.kind = "entry"
           THEN \* key points to a value
                /\ schemas' = marked
                /\ heap' = [heap EXCEPT ![c.memory] = set.memory]
                /\ cfg' = [cfg EXCEPT ![h].defaultKeys =
                              IF c.defaultKeysNil THEN {} ELSE set.defaultKeys]
                /\ Leave(h, set.callbacks, "Set")
                /\ cur' = Call("Reset", h, key, "leaf", set.res)
           ELSE IF fullKey = EmptyStr
           THEN \* the whole config
                /\ heap' = [i \in MemIds |->
                              IF i = new THEN whole.base
                              ELSE IF \E g \in Handles \ {h} : cfg[g].open /\ cfg[g].memory = i
                                   THEN heap[i] ELSE EmptyTree]
                /\ cfg' = [cfg EXCEPT ![h].memory = new,
                                      ![h].defaultKeys =
                                          IF c.defaultKeysNil THEN {} ELSE whole.defaultKeys]
                /\ Leave(h, <<>>, "Reset")
                /\ cur' = [Call("Reset", h, key, "all",
                                IF c.defaultKeysNil /\ whole.defaultKeys # {} THEN "panic"
                                ELSE IF whole.ok THEN "ok" ELSE "err")
                           EXCEPT !.lost = KeySet(Memory(c)) \ KeySet(whole.base)]
                /\ UNCHANGED schemas
           ELSE IF defaultSection = NoSection
           THEN /\ Leave(h, <<>>, "Reset")
                /\ cur' = Call("Reset", h, key, "section", "err")
                /\ UNCHANGED <<schemas, heap, cfg>>
           ELSE IF ~sp.found
           THEN /\ Leave(h, <<>>, "Reset")
                /\ cur' = Call("Reset", h, key, "section", "panic")
                /\ UNCHANGED <<schemas, heap, cfg>>
           ELSE \* a section
                /\ heap' = [heap EXCEPT ![c.memory] = ReplaceAt(@, sp.parent, part.base)]
                /\ cfg' = [cfg EXCEPT ![h].defaultKeys =
                              IF c.defaultKeysNil THEN {} ELSE part.defaultKeys]
                /\ Leave(h, <<>>, "Reset")
                /\ cur' = [Call("Reset", h, key, "section",
                                IF c.defaultKeysNil /\ part.defaultKeys # {} THEN "panic"
                                ELSE IF part.ok THEN "ok" ELSE "err")
                           EXCEPT !.lost = KeySet(Memory(c)) \
                                           KeySet(ReplaceAt(Memory(c), sp.parent, part.base))]
                /\ UNCHANGED schemas
    /\ UNCHANGED nfn

KeyA == <<"a">>
KeyAM == <<"a", ".", "m">>

\* The keys that are read: a literal leaf, a leaf below the wildcard section
\* and the list.
ReadKeys == {KeyAB, KeyAMV, KeyL}

\* The calls of Set: a key and a value (the key as the handle spells it).
SetCalls(h) ==
    LET ab == IF h = "view" THEN KeyB ELSE KeyAB
        amv == IF h = "view" THEN KeyMV ELSE KeyAMV
    IN  {<<ab, I64(n)>> : n \in 1..MaxInt} \cup {<<ab, GoStr(1)>>}
        \cup {<<amv, GoInt(1)>>, <<amv, I64(2)>>, <<amv, GoStr(1)>>}

EventKeys(h) == IF h = "view" THEN {EmptyStr, KeyB} ELSE {EmptyStr, KeyAB}

\* The keys Reset is called with: everything, a leaf, a section that is a
\* child of the wildcard section, and the section that holds both.
ResetKeys(h) == IF h = "view" THEN {KeyB} ELSE {EmptyStr, KeyAB, KeyAM, KeyA}

Next ==
    \/ \E h \in {"root", "view"} : \E call \in SetCalls(h) : Set(h, call[1], call[2])
    \/ \E h \in {"root", "view"} : \E key \in EventKeys(h) : AddEvent(h, key)
    \/ \E reenter \in BOOLEAN : Fire(reenter)
    \/ Section("root", KeyA)

Spec == Init /\ [][Next]_vars

\* The root store with Merge and the Reset of a key.
NextMerge ==
    \/ \E call \in SetCalls("root") : Set("root", call[1], call[2])
    \/ \E key \in EventKeys("root") : AddEvent("root", key)
    \/ \E reenter \in BOOLEAN : Fire(reenter)
    \/ \E o \in {"over", "over2", "alien"} : Merge("root", o)
    \/ Reset("root", KeyAB)

SpecMerge == Init /\ [][NextMerge]_vars

\* The root store with Reload.
ReloadInputs == {"nil", "b2", "mv2", "bad", "b3", "garbage"}

NextReload ==
    \/ \E call \in SetCalls("root") : Set("root", call[1], call[2])
    \/ \E key \in EventKeys("root") : AddEvent("root", key)
    \/ \E reenter \in BOOLEAN : Fire(reenter)
    \/ \E in \in ReloadInputs : Reload("root", in)

SpecReload == Init /\ [][NextReload]_vars

\* The root store with Reset.
NextReset ==
    \/ \E call \in SetCalls("root") : Set("root", call[1], call[2])
    \/ \E key \in EventKeys("root") : AddEvent("root", key)
    \/ \E reenter \in BOOLEAN : Fire(reenter)
    \/ \E key \in ResetKeys("root") : Reset("root", key)

SpecReset == Init /\ [][NextReset]_vars

\* The ids under which handle h holds a callback.
EventIds(h) == UNION {DOMAIN cfg[h].changeCallbacks[k] : k \in DOMAIN cfg[h].changeCallbacks}

\* The inputs the root is reloaded from while a view of it exists.
ViewInputs == {"nil", "b2"}

\* The calls of SetInt with the values 1 and 2.
ViewSetCalls(h) == {call \in SetCalls(h) : call[2] \in {I64(1), I64(2)}}

\* The root store and a section view of it: both are written, and the
\* root is reset, reloaded and merged into.
NextView ==
    \/ Section("root", KeyA)
    \/ \E h \in {"root", "view"} : \E call \in ViewSetCalls(h) : Set(h, call[1], call[2])
    \/ \E h \in {"root", "view"} : \E key \in ResetKeys(h) : Reset(h, key)
    \/ \E in \in ViewInputs : Reload("root", in)
    \/ Merge("root", "over")

SpecView == Init /\ [][NextView]_vars

\* The calls of Set that write the literal leaf a.b.
LeafSetCalls(h) == {call \in SetCalls(h) : call[1] \in {KeyAB, KeyB}}

\* The root store and a section view of it: the leaf a.b is written through
\* both and subscribed to on both, and callbacks are removed (also by
\* another thread while the calling thread is between two callbacks).
NextEvents ==
    \/ Section("root", KeyA)
    \/ \E h \in {"root", "view"} : \E call \in LeafSetCalls(h) : Set(h, call[1], call[2])
    \/ \E h \in {"root", "view"} : \E key \in EventKeys(h) : AddEvent(h, key)
    \/ \E reenter \in BOOLEAN : Fire(reenter)
    \/ \E h \in {"root", "view"} : \E id \in EventIds(h) : RemoveEvent(h, id)

SpecEvents == Init /\ [][NextEvents]_vars

\* Keys below the section a: of another undeclared child, below the literal
\* leaf, and with the marker as a segment and as the last segment.
KeyAXV == <<"a", ".", "x", ".", "v">>
KeyABV == <<"a", ".", "b", ".", "v">>
KeyAManyV == <<"a", ".", "__many__", ".", "v">>
KeyAMany == <<"a", ".", "__many__">>

TemplateKeys == {KeyAB, KeyAMV, KeyAXV, KeyABV, KeyAManyV, KeyAMany}

\* The values these keys are set to: one the validator of a.b accepts and
\* one it rejects.
WildcardCalls == {<<key, I64(n)>> : key \in TemplateKeys, n \in {2, MaxInt}}

WildcardInputs == {"nil", "b2", "m0", "mv2", "many"}

\* The root store opened, read and written with keys that resolve through
\* the wildcard template, through its literal sibling and through a
\* segment named like the marker.
NextWildcard ==
    \/ \E in \in WildcardInputs : Open("root", in)
    \/ \E key \in TemplateKeys : GetCall("root", key)
    \/ \E call \in WildcardCalls : Set("root", call[1], call[2])

SpecWildcard == Init /\ [][NextWildcard]_vars

\* Keys below the wildcard section of SchemaV2.
KeyAMX == <<"a", ".", "m", ".", "x">>

MountKeys == {KeyAB, KeyAMV, KeyAMX, KeyAXV, <<"a", ".", "x", ".", "x">>}

\* The root store opened with the two-leaf template from inputs that give
\* none, an empty one or one leaf of a wildcard child, then read and written.
NextMounts ==
    \/ \E in \in {"nil", "m0", "mv2"} : OpenWith("root", in, 3)
    \/ \E key \in MountKeys : GetCall("root", key)
    \/ \E key \in MountKeys : Set("root", key, I64(2))

SpecMounts == Init /\ [][NextMounts]_vars

KeyAX == <<"a", ".", "x">>

\* The root store with the schema of nested literal sections: opened, written
\* and reset as a whole, by section and by leaf.
NextNested ==
    \/ \E in \in {"nil", "xv2"} : OpenWith("root", in, 4)
    \/ \E key \in {KeyAB, KeyAXV}, n \in {2, MaxInt} : Set("root", key, I64(n))
    \/ \E key \in {EmptyStr, KeyA, KeyAX} : Reset("root", key)
    \/ \E key \in {KeyAB, KeyAXV} : GetCall("root", key)

SpecNested == Init /\ [][NextNested]_vars

\* The keys a handle of the nested schema is called with: the leaf a.x.v as
\* the root spells it, and as a view of a and a view of a.x spell it.
ComposeKeys(h) == IF h = "view" THEN {V, <<"x", ".", "v">>} ELSE {KeyAXV}

\* The root store with the nested schema, a view of its section a, and the
\* view of x made from that view.
NextCompose ==
    \/ \E in \in {"nil", "xv2"} : OpenWith("root", in, 4)
    \/ Section("root", KeyA)
    \/ SectionOfView(X)
    \/ \E h \in {"root", "view"} : \E key \in ComposeKeys(h) : GetCall(h, key)
    \/ \E h \in {"root", "view"} : \E key \in ComposeKeys(h), n \in {2, MaxInt} :
           Set(h, key, I64(n))

SpecCompose == Init /\ [][NextCompose]_vars

\* Scalars and lists, for the list key l and the scalar key a.b.
ListCalls ==
    {<<key, val>> : key \in {KeyL, KeyAB},
                    val \in {I64(1), I64(2), GoStr(1),
                             Slice("int64", <<Atom("int64", 1)>>),
                             Slice("int64", <<Atom("int64", 2)>>),
                             Slice("string", <<Atom("string", 1)>>)}}

\* The root store opened and reloaded from documents that give scalars and
\* lists, and written with scalars and lists.
NextTypes ==
    \/ \E in \in {"nil", "l1", "lstr", "llist", "blist"} : Open("root", in)
    \/ \E in \in {"nil", "l1", "lstr", "llist", "blist"} : Reload("root", in)
    \/ \E call \in ListCalls : Set("root", call[1], call[2])
    \/ \E key \in {KeyL, KeyAB} : GetCall("root", key)

SpecTypes == Init /\ [][NextTypes]_vars

\* The root store opened again and again, and read and written with keys
\* the schema has and keys it does not have.
OpenInputs == {"nil", "b2", "mv2", "bad", "b3", "garbage"}

\* Keys that are no leaf of the schema: a section, a wildcard section and an
\* unknown name.
InvalidKeys == {KeyA, KeyAM, X}

NextOpen ==
    \/ \E in \in OpenInputs : Open("root", in)
    \/ \E key \in ReadKeys \cup InvalidKeys : GetCall("root", key)
    \/ \E call \in SetCalls("root") \cup {<<key, I64(1)>> : key \in InvalidKeys} :
           Set("root", call[1], call[2])
    \/ \E key \in EventKeys("root") : AddEvent("root", key)
    \/ \E reenter \in BOOLEAN : Fire(reenter)

SpecOpen == Init /\ [][NextOpen]_vars

(***************************************************************************)
(* Properties                                                              *)
(***************************************************************************)
\* The leaves the schema declares under literal names only: the key and
\* the entry of each.
RECURSIVE LiteralLeaves(_, _)
LiteralLeaves(defaults, prefix) ==
    UNION { IF defaults.kids[k].kind = "mapping"
            THEN LiteralLeaves(defaults.kids[k], Append(prefix, k))
            ELSE IF defaults.kids[k].kind = "entry"
            THEN {[key |-> Join(Append(prefix, k)), entry |-> defaults.kids[k]]}
            ELSE {} : k \in (DOMAIN defaults.kids) \ {manyMarker} }

\* The canonical class of a type: every integer is an int64, every float a
\* float64.
CanonicalName(name) ==
    IF name \in IntNames THEN "int64" ELSE IF name \in FloatNames THEN "float64" ELSE name

\* A value in canonical form: a scalar, or a list typed by its elements.
Canonical(val) ==
    [slice |-> val.slice, name |-> CanonicalName(val.name),
     elems |-> [i \in 1..Len(val.elems) |->
                  Atom(CanonicalName(val.elems[i].name), val.elems[i].n)]]

\* How often the function fn is in a sequence of events or calls.
Count(fn, seq) == Cardinality({i \in 1..Len(seq) : seq[i].fn = fn})

\* The events handle h holds for the exact key (as h spells it) and for "".
Subscribed(h, key) ==
    LET cbs == cfg[h].changeCallbacks
        of(k) == IF k \in DOMAIN cbs THEN {cbs[k][i] : i \in DOMAIN cbs[k]} ELSE {}
    IN  of(prefixKey(cfg[h].section, key)) \cup of(EmptyStr)

\* C1: a store opened from an empty input returns, for every leaf the schema
\* declares under literal names, the default in canonical form, and reports
\* the leaf as default-sourced.
C1_EmptyInputGivesDefaults ==
    (cur.op = "Open" /\ cur.arg = "nil") =>
        \A l \in LiteralLeaves(SchemaV0, <<>>) :
            /\ Get("root", l.key) = [res |-> "ok", val |-> Canonical(l.entry.Default)]
            /\ IsDefault("root", l.key)

C1_Witness ==
    /\ cur.op = "Open" /\ cur.arg = "nil"
    /\ Get("root", KeyAB).val = I64(1)
    /\ Get("root", KeyL).val = Slice("int64", <<Atom("int64", 1), Atom("int64", 2)>>)
    /\ IsDefault("root", KeyL)

\* C2: a Set through h that succeeds with a value different from the
\* current one gathers every callback h holds for the key and for "" exactly
\* once, and each gathered callback is then called once, in turn; a Set
\* with the current value calls no callback.
C2_SetFiresSubscribersOnce ==
    [][ /\ \A h \in {"root", "view"} :
              (cur'.op = "Set" /\ cur'.h = h) =>
                  \A old \in {Get(h, cur'.key)} : \A new \in {GetAfter(h, cur'.key)} :
                  \A call \in SetCalls(h) :
                      /\ (/\ call[1] = cur'.key /\ old.res = "ok" /\ old.val = call[2]
                          /\ Set(h, call[1], call[2]))
                          => (pending' = <<>> /\ pc' = "idle")
                      /\ (/\ call[1] = cur'.key /\ cur'.res = "ok" /\ old.val # call[2]
                          /\ new.val = call[2]
                          /\ Set(h, call[1], call[2]))
                          => /\ \A e \in Subscribed(h, call[1]) : Count(e.fn, pending') = 1
                             /\ \A i \in 1..Len(pending') :
                                    pending'[i] \in Subscribed(h, call[1])
        /\ (cur.op = "Set" /\ pc = "firing" /\ cur' = cur) =>
              /\ pending' = Tail(pending)
              /\ Len(fired') = Len(fired) + 1
              /\ fired'[Len(fired')].fn = Head(pending).fn
              /\ pc' = (IF pending' = <<>> THEN "idle" ELSE "firing")
      ]_vars

C2_Witness ==
    /\ cur.op = "Set" /\ cur.res = "ok" /\ pc = "idle"
    /\ Len(fired) = 2 /\ fired[1].fn # fired[2].fn
    /\ \A e \in Subscribed(cur.h, cur.key) : Count(e.fn, fired) = 1

\* C3: setting a key to its current value changes neither the data tree nor
\* what IsDefault reports for the key.
C3_SetSameValueIsNoOp ==
    [][ \A h \in {"root", "view"} : \A call \in SetCalls(h) :
            (Set(h, call[1], call[2])
             /\ Get(h, call[1]).res = "ok" /\ Get(h, call[1]).val = call[2])
            => /\ heap' = heap
               /\ (call[1] \in cfg'[h].defaultKeys) = IsDefault(h, call[1])
      ]_vars

\* C4: a Set that returns an error leaves the data tree and the default
\* keys as they were.
C4_FailedSetChangesNothing ==
    [][ \A h \in {"root", "view"} : \A call \in SetCalls(h) :
            (Set(h, call[1], call[2]) /\ cur'.res = "err")
            => (heap' = heap /\ cfg' = cfg)
      ]_vars

\* The operations C5 is about.
UnlocksFirst == cur.op \in {"Set", "Merge"} \/ (cur.op = "Reset" /\ cur.arg = "leaf")

\* C5: Set, the Reset of a leaf and Merge call no callback while the mutex
\* of the family is held; the callbacks they gathered are called after the
\* Unlock and before the call returns.
C5_CallbacksAfterUnlock ==
    UnlocksFirst =>
        /\ \A i \in 1..Len(fired) : ~fired[i].locked
        /\ (pc = "firing") => ~mu[cfg[cur.h].mu]
        /\ (pc = "idle") => pending = <<>>

C5_Witness ==
    /\ cur.op = "Merge" /\ cur.res = "ok" /\ pc = "idle"
    /\ Len(fired) > 0
    /\ \A i \in 1..Len(fired) : ~fired[i].locked

\* C6: a callback called by Reload that calls back into the store does not
\* block.
C6_ReloadCallbackMayReenter == ~(cur.op = "Reload" /\ pc = "blocked")

\* C7: no callback is called with the empty string: a callback registered
\* for "" is given the key that changed.
C7_CallbackGetsChangedKey ==
    \A i \in 1..Len(fired) : fired[i].arg # EmptyStr

\* C8: a Merge of stores whose schemas differ returns an error and changes
\* neither the target nor the source: data trees, default keys, versions
\* and callbacks stay.
C8_MergeRefusesOtherSchema ==
    [][ \A o \in {"over", "over2", "alien"} :
            (Merge("root", o) /\ Defaults(cfg["root"]) # Defaults(cfg[o]))
            => (cur'.res = "err" /\ heap' = heap /\ cfg' = cfg /\ schemas' = schemas)
      ]_vars

C8_Witness ==
    /\ cur.op = "Merge" /\ cur.arg = "alien" /\ cur.res = "err"
    /\ Get("root", KeyAB).val # Get("alien", KeyAB).val

\* C9: after a successful Merge the target still has its value for every
\* key that is a default key of the source.
C9_MergeSkipsSourceDefaults ==
    [][ \A o \in {"over", "over2", "alien"} :
            (Merge("root", o) /\ cur'.res = "ok")
            => \A key \in cfg[o].defaultKeys : GetAfter("root", key) = Get("root", key)
      ]_vars

C9_Witness ==
    /\ cur.op = "Merge" /\ cur.arg = "over2" /\ cur.res = "ok"
    /\ IsDefault("over2", KeyAB)
    /\ Get("root", KeyAB).val = I64(2)
    /\ Get("over2", KeyAB).val = I64(1)

\* The keys a store holds as explicitly set.
ExplicitKeys(h) ==
    {k \in {Join(p) : p \in LeafPaths(Memory(cfg[h]), <<>>)} : ~IsDefault(h, k)}

\* C10: after a successful Merge the target has the value of the source for
\* every key the source holds explicitly with another value, the keys that
\* are only in the tree of the source included.
C10_MergeTakesExplicitValues ==
    [][ \A o \in {"over", "over2", "alien"} :
            (Merge("root", o) /\ cur'.res = "ok")
            => \A key \in ExplicitKeys(o) :
                   Get(o, key).val # Get("root", key).val
                   => GetAfter("root", key).val = Get(o, key).val
      ]_vars

\* C11: after a successful Merge the target still has its own explicit value
\* for every key that is not in the data tree of the source (a key below a
\* wildcard section the source never set).
C11_MergeKeepsKeysSourceNeverSet ==
    [][ \A o \in {"over", "over2", "alien"} :
            (Merge("root", o) /\ cur'.res = "ok")
            => \A key \in ExplicitKeys("root") \ KeySet(Memory(cfg[o])) :
                   GetAfter("root", key) = Get("root", key)
      ]_vars

\* The default the schema gives for a key.
SchemaDefault(key) == getDefaultByKey(key, SchemaV0).Default

\* What a store has to return for a key once it was loaded from a tree.
Loaded(tree, key) ==
    IF Split(key) \in LeafPaths(tree, <<>>)
    THEN {Canonical(NodeAt(tree, Split(key)).val)}
    ELSE {SchemaDefault(key), Canonical(SchemaDefault(key))}

\* C12: after a successful Reload every key reads the normalized value the
\* new tree gives it, or the default of the schema when the new tree does
\* not name it, and the version is the one decoded with the tree.
C12_ReloadReplacesTreeAndVersion ==
    (cur.op = "Reload" /\ cur.res = "ok") =>
        /\ \A key \in ReadKeys :
               /\ Get("root", key).res = "ok"
               /\ Get("root", key).val \in Loaded(Inputs[cur.arg].tree, key)
        /\ cfg["root"].version = Inputs[cur.arg].version

C12_Witness ==
    /\ cur.op = "Reload" /\ cur.res = "ok" /\ cur.arg = "mv2"
    /\ Get("root", KeyAMV).val = I64(2)
    /\ Get("root", KeyAB).val = I64(1)
    /\ cfg["root"].version = 7

\* The events handle h holds in the bucket of one key.
Bucket(h, key) ==
    IF key \in DOMAIN cfg[h].changeCallbacks
    THEN {cfg[h].changeCallbacks[key][i] : i \in DOMAIN cfg[h].changeCallbacks[key]}
    ELSE {}

\* C13: a successful Reload gathers the callbacks of a key once when what
\* Get returns for the key has changed and not at all when it has not, and
\* the callbacks registered for "" once for every changed key.
C13_ReloadFiresPerChangedKey ==
    [][ \A in \in ReloadInputs :
            (Reload("root", in) /\ cur'.res = "ok")
            => \A changed \in {{key \in ReadKeys :
                                  GetAfter("root", key).val # Get("root", key).val}} :
                   /\ \A key \in ReadKeys : \A e \in Bucket("root", key) :
                          Count(e.fn, pending') = (IF key \in changed THEN 1 ELSE 0)
                   /\ \A e \in Bucket("root", EmptyStr) :
                          Count(e.fn, pending') = Cardinality(changed)
      ]_vars

\* C14: a Reload that returns an error leaves data trees, versions, default
\* keys and callbacks as they were and calls no callback.
C14_FailedReloadChangesNothing ==
    [][ \A in \in ReloadInputs :
            (Reload("root", in) /\ cur'.res = "err")
            => (heap' = heap /\ cfg' = cfg /\ schemas' = schemas
                /\ pending' = <<>> /\ pc' = "idle")
      ]_vars

C14_Witness ==
    /\ cur.op = "Reload" /\ cur.res = "err" /\ cur.arg = "b3"
    /\ ~IsDefault("root", KeyAB)
    /\ Get("root", KeyAB).val = I64(2)
    /\ Bucket("root", EmptyStr) # {}
    /\ fired = <<>>

\* The node of the schema a path of segments leads to: a segment takes the
\* child of its name, or the wildcard child when there is none of its name.
RECURSIVE Resolve(_, _)
Resolve(path, node) ==
    IF path = <<>> THEN node
    ELSE IF node.kind # "mapping" THEN NoEntry
    ELSE IF path[1] \in DOMAIN node.kids THEN Resolve(Tail(path), node.kids[path[1]])
    ELSE IF manyMarker \in DOMAIN node.kids THEN Resolve(Tail(path), node.kids[manyMarker])
    ELSE NoEntry

\* A leaf of an input tree that has no entry in the schema, or whose value
\* the validator of its entry rejects.
BadLeaf(tree, path) ==
    \/ Resolve(path, SchemaV0).kind # "entry"
    \/ ~ValidatorOk(Resolve(path, SchemaV0).Validator, NodeAt(tree, path).val)

\* C15: Open of a tree with a leaf that resolves to no entry of the schema,
\* or that the validator of its entry rejects, returns an error and no store.
C15_OpenRejectsBadLeaf ==
    (cur.op = "Open" /\ \E path \in LeafPaths(Inputs[cur.arg].tree, <<>>) :
                            BadLeaf(Inputs[cur.arg].tree, path))
    => (cur.res = "err" /\ ~cfg[cur.h].open)

C15_Witness ==
    /\ cur.op = "Open" /\ cur.arg = "b3" /\ cur.res = "err"
    /\ BadLeaf(TreeB3, <<A, B>>)
    /\ ~cfg["root"].open

LiteralKeys == {l.key : l \in LiteralLeaves(SchemaV0, <<>>)}

\* C17: after Reset("") of the root store the data tree holds the literal
\* leaves only, every literal leaf reads its default in canonical form and
\* is a default key, and a key below the wildcard section reads the default
\* of the template.
C17_ResetAllGivesDefaults ==
    (cur.op = "Reset" /\ cur.arg = "all" /\ cur.res = "ok") =>
        /\ KeySet(Memory(cfg["root"])) = LiteralKeys
        /\ \A l \in LiteralLeaves(SchemaV0, <<>>) :
               /\ Get("root", l.key) = [res |-> "ok", val |-> Canonical(l.entry.Default)]
               /\ IsDefault("root", l.key)
        /\ Get("root", KeyAMV).val \in Loaded(EmptyTree, KeyAMV)

C17_Witness ==
    /\ cur.op = "Reset" /\ cur.arg = "all" /\ cur.res = "ok"
    /\ KeyAMV \in cur.lost
    /\ IsDefault("root", KeyAB)
    /\ Get("root", KeyAB).val = I64(1)

\* C18: the Reset of the leaf a.b leaves the default of a.b there and every
\* other key as it was, and gathers the callbacks of a.b once when the value
\* was not the default before and none when it was.
C18_ResetLeafOnlyThatLeaf ==
    [][ (Reset("root", KeyAB) /\ cur'.res \in {"ok", "same"})
        => /\ GetAfter("root", KeyAB).val = Canonical(SchemaDefault(KeyAB))
           /\ \A key \in ReadKeys \ {KeyAB} : GetAfter("root", key) = Get("root", key)
           /\ Get("root", KeyAB).val # Canonical(SchemaDefault(KeyAB))
                 => \A e \in Bucket("root", KeyAB) : Count(e.fn, pending') = 1
           /\ Get("root", KeyAB).val = Canonical(SchemaDefault(KeyAB))
                 => pending' = <<>>
      ]_vars

\* The keys of the data tree that are below the wildcard section.
WildcardKeys(memory) == KeySet(memory) \ LiteralKeys

\* C19: after the Reset of a section the keys the data tree had below the
\* wildcard section inside it are gone from the tree and read the default of
\* the template.
C19_ResetSectionForgetsWildcardKeys ==
    [][ \A section \in {KeyA, KeyAM} :
            (Reset("root", section) /\ cur'.res = "ok")
            => \A key \in {k \in WildcardKeys(Memory(cfg["root"])) : HasPrefix(k, section)} :
                   /\ key \notin KeySet(heap'[cfg'["root"].memory])
                   /\ GetAfter("root", key).res = "ok"
                   /\ GetAfter("root", key).val \in Loaded(EmptyTree, key)
      ]_vars

C19_Witness ==
    /\ cur.op = "Reset" /\ cur.arg = "section" /\ cur.res = "ok" /\ cur.key = KeyAM
    /\ KeyAMV \in cur.lost
    /\ KeyAMV \notin KeySet(Memory(cfg["root"]))
    /\ Get("root", KeyAMV).val = SchemaDefault(KeyAMV)

\* C20: the Reset of everything or of a section gathers the callbacks of
\* every key whose value it changes once, and the callbacks registered for
\* "" once for every changed key.
C20_ResetFiresPerChangedKey ==
    [][ \A section \in {EmptyStr, KeyA, KeyAM} :
            (Reset("root", section) /\ cur'.res = "ok")
            => \A changed \in {{key \in ReadKeys :
                                  GetAfter("root", key).val # Get("root", key).val}} :
                   /\ \A key \in changed : \A e \in Bucket("root", key) :
                          Count(e.fn, pending') = 1
                   /\ \A e \in Bucket("root", EmptyStr) :
                          Count(e.fn, pending') = Cardinality(changed)
      ]_vars

\* The keys the view reads, as the view spells them.
ViewKeys == {KeyB, KeyMV}

\* C21: while the view with prefix a exists, Get(k) on the view returns what
\* Get(a.k) on the root returns.
C21_ViewReadsRootCells ==
    cfg["view"].open =>
        \A k \in ViewKeys : Get("view", k) = Get("root", prefixKey(cfg["view"].section, k))

\* A key of the data tree written relative to a section ("" when the key is
\* not below the section).
Relative(key, section) ==
    IF HasPrefix(key, section \o <<Dot>>)
    THEN SubSeq(key, Len(section) + 2, Len(key)) ELSE EmptyStr

\* C22: Keys() on the view returns, sorted, the keys of the leaves below the
\* section of the view, each written relative to the section.
C22_ViewKeysAreRelative ==
    cfg["view"].open =>
        keys(cfg["view"].section, Memory(cfg["view"]))
            = SortStrings({Relative(k, cfg["view"].section) :
                              k \in KeySet(Memory(cfg["view"]))} \ {EmptyStr})

\* A step of Set through handle h that has changed the value of a.b.
ChangesAB(h) ==
    /\ pc = "idle" /\ cfg[h].open
    /\ cur'.op = "Set" /\ cur'.h = h /\ cur'.res = "ok"
    /\ prefixKey(cfg[h].section, cur'.key) = KeyAB
    /\ heap' # heap

\* C23 (as the code has it): the view starts with a copy of the callbacks of
\* the parent: a change of a.b committed through the view right after
\* Section() gathers every callback the parent holds for a.b and for ""
\* exactly once.
C23_ViewStartsWithParentCallbacks ==
    [][ (cur.op = "Section" /\ ChangesAB("view"))
        => \A e \in Bucket("root", KeyAB) \cup Bucket("root", EmptyStr) :
               Count(e.fn, pending') = 1
      ]_vars

C23_Witness ==
    /\ cur.op = "Set" /\ cur.h = "view" /\ cur.res = "ok" /\ pc = "idle"
    /\ \E e \in Bucket("root", KeyAB) :
           /\ Count(e.fn, fired) = 1
           /\ \A i \in 1..Len(fired) : fired[i].fn = e.fn => fired[i].arg = KeyAB

\* C23 (as the claim has it): a change committed through the view right
\* after Section() gathers no callback of the parent.
C23_ViewStartsWithoutCallbacks ==
    [][ (cur.op = "Section" /\ ChangesAB("view"))
        => \A e \in Bucket("root", KeyAB) \cup Bucket("root", EmptyStr) :
               Count(e.fn, pending') = 0
      ]_vars

\* C24: a change of a.b committed through the root or through the view
\* gathers the callbacks registered for a.b on the root and those
\* registered for it on the view, once each and nothing else but the
\* callbacks for "", each with the key as it was registered.
C24_ChangeFiresBothHandles ==
    [][ \A h \in {"root", "view"} :
            (cfg["view"].open /\ ChangesAB(h))
            => /\ \A e \in Bucket("root", KeyAB) \cup Bucket("view", KeyAB) :
                      Count(e.fn, pending') = 1
               /\ \A i \in 1..Len(pending') :
                      pending'[i] \in Bucket("root", KeyAB) \cup Bucket("view", KeyAB)
                                      \cup Bucket("root", EmptyStr)
                                      \cup Bucket("view", EmptyStr)
      ]_vars

\* The functions handle h holds a callback of.
Registered(h) == UNION {{e.fn : e \in Bucket(h, k)} : k \in DOMAIN cfg[h].changeCallbacks}

\* C25: a callback is called only while the handle that gathered it still
\* holds it: never after RemoveEvent has taken it out.
C25_RemovedCallbackNeverCalled ==
    [][ (pc = "firing" /\ Len(fired') = Len(fired) + 1)
        => Head(pending).fn \in Registered(cur.h)
      ]_vars

\* C26: after a successful operation every leaf of the data tree of the root
\* holds a value of the canonical class of its schema entry.
C26_LeavesAreCanonical ==
    (pc = "idle" /\ cur.h = "root" /\ cur.res \in {"ok", "same"}) =>
        \A p \in LeafPaths(Memory(cfg["root"]), <<>>) :
            \A leaf \in {NodeAt(Memory(cfg["root"]), p)} :
            \A entry \in {getDefaultByKey(Join(p), SchemaV0)} :
                entry.kind = "entry" =>
                    /\ leaf.val = Canonical(leaf.val)
                    /\ getTypeOf(leaf.val) = getTypeOf(Canonical(entry.Default))

\* C27: the default mappings have the content they were created with.
C27_SchemaNeverChanges == schemas[1] = SchemaV0 /\ schemas[2] = SchemaV1

\* C28: a key that resolves to a schema leaf and is not in the data tree
\* reads the schema default and is reported as default-sourced.
C28_AbsentLeafIsDefault ==
    \A key \in ReadKeys :
        (/\ getDefaultByKey(key, SchemaV0).kind = "entry"
         /\ key \notin KeySet(Memory(cfg["root"])))
        => /\ Get("root", key) = [res |-> "ok", val |-> SchemaDefault(key)]
           /\ IsDefault("root", key)

\* The key has a segment that is named like the marker.
HasMarker(key) == \E i \in 1..Len(Split(key)) : Split(key)[i] = manyMarker

\* C29: no leaf of the data tree is below a key named like the marker, a
\* Get or a Set with a key that has the marker as a segment panics, and an
\* input with a section named like the marker is not accepted.
C29_MarkerNeverAddressable ==
    /\ \A key \in KeySet(Memory(cfg["root"])) : ~HasMarker(key)
    /\ (cur.op \in {"Get", "Set"} /\ HasMarker(cur.key)) => cur.res = "panic"
    /\ (cur.op = "Open" /\ cur.arg = "many") => cur.res # "ok"

\* The entry of the template of section a, and the entry of its sibling b.
TemplateEntry == SchemaV0.kids[A].kids[manyMarker].kids[V]
SiblingEntry == SchemaV0.kids[A].kids[B]

\* The children of section a in the data tree a step leaves.
ChildrenAfter == heap'[cfg'["root"].memory].kids[A].kids

\* C30: in section a, which declares the template and the literal leaf b,
\* a key below a child that is not declared is set and read with the entry
\* of the template (it has no validator), a.b with its own entry (its
\* validator rejects MaxInt) and never as a section; the defaulting pass of
\* Open fills every undeclared child of a from the template and leaves a.b
\* a leaf.
C30_WildcardUsesTemplate ==
    [][ /\ \A key \in {KeyAMV, KeyAXV} :
              (cur'.op = "Set" /\ cur'.key = key /\ Set("root", key, I64(MaxInt)))
              => /\ cur'.res \in {"ok", "same"}
                 /\ GetAfter("root", key).val = I64(MaxInt)
                 /\ GetAfter("root", KeyAB) = Get("root", KeyAB)
        /\ (cur'.op = "Set" /\ cur'.key = KeyAB /\ Set("root", KeyAB, I64(MaxInt)))
              => /\ cur'.res = "err"
                 /\ GetAfter("root", KeyAB) = Get("root", KeyAB)
        /\ (cur'.op = "Set" /\ cur'.key = KeyABV) => cur'.res = "panic"
        /\ \A in \in WildcardInputs :
              (cur'.op = "Open" /\ cur'.arg = in /\ cur'.res = "ok" /\ Open("root", in))
              => /\ ChildrenAfter[B].kind = "leaf"
                 /\ getTypeOf(ChildrenAfter[B].val) = getTypeOf(Canonical(SiblingEntry.Default))
                 /\ \A k \in (DOMAIN ChildrenAfter) \ {B} :
                        /\ ChildrenAfter[k].kind = "map"
                        /\ DOMAIN ChildrenAfter[k].kids = {V}
                        /\ ChildrenAfter[k].kids[V].kind = "leaf"
                 /\ in = "m0" => /\ GetAfter("root", KeyAMV).val = Canonical(TemplateEntry.Default)
                                  /\ KeyAMV \in cfg'["root"].defaultKeys
      ]_vars

C30_Witness ==
    /\ cur.op = "Set" /\ cur.key = KeyAXV /\ cur.res = "ok"
    /\ Get("root", KeyAXV).val = I64(MaxInt)
    /\ splitKey(Memory(cfg["root"]), KeyAMV, FALSE).found
    /\ KeyAMV \in cfg["root"].defaultKeys
    /\ Get("root", KeyAB).val = I64(2)

\* C31 (as the code has it): the defaulting pass fills the leaves of the
\* template into every child of the wildcard section the input has: after
\* an Open whose input gives only a.m.v, a.m.x is in the data tree with the
\* default of the template and is default-sourced, a.m.v is not, and
\* nothing is created under the marker's name or for a child the input
\* does not have.
C31_TemplateLeavesAreFilledIn ==
    (cur.op = "Open" /\ cur.arg = "mv2" /\ cur.res = "ok" /\ cfg["root"].defaults = 3) =>
        /\ KeySet(Memory(cfg["root"])) = {KeyAB, KeyAMV, KeyAMX}
        /\ Get("root", KeyAMX) =
               [res |-> "ok", val |-> Canonical(getDefaultByKey(KeyAMX, SchemaV2).Default)]
        /\ IsDefault("root", KeyAMX)
        /\ ~IsDefault("root", KeyAMV)
        /\ Get("root", KeyAMV).val = I64(2)

C31_Witness ==
    /\ cur.op = "Open" /\ cur.arg = "mv2" /\ cur.res = "ok" /\ cfg["root"].defaults = 3
    /\ splitKey(Memory(cfg["root"]), KeyAMX, FALSE).found
    /\ Get("root", KeyAMX).val = I64(1)

\* C31 (as the claim has it): after an Open whose input gives only a.m.v,
\* a.m.x is not in the data tree, and Get returns the default of the
\* template for it.
C31_TemplateLeavesStayAbsent ==
    (cur.op = "Open" /\ cur.arg = "mv2" /\ cur.res = "ok" /\ cfg["root"].defaults = 3) =>
        /\ KeyAMX \notin KeySet(Memory(cfg["root"]))
        /\ Get("root", KeyAMX).val \in {getDefaultByKey(KeyAMX, SchemaV2).Default,
                                         Canonical(getDefaultByKey(KeyAMX, SchemaV2).Default)}

\* C32: a key whose default is a list never holds a scalar and a key whose
\* default is a scalar never holds a list: whatever Open, Reload and Set
\* have accepted, Get(l) is a list and Get(a.b) is a scalar.
C32_ListKeysHoldLists ==
    cfg["root"].open =>
        /\ Get("root", KeyL).val.slice
        /\ ~Get("root", KeyAB).val.slice

\* C33: an operation that has returned has released the mutex of its
\* family, whatever it returned: after a Merge the calling thread is
\* outside every operation with the mutex free, so that the next operation
\* of the family can take it.
C33_ReturnReleasesLock ==
    (cur.op = "Merge" /\ pc = "idle") => (~mu[cfg["root"].mu] /\ CanCall("root"))

\* C34: after a successful Reload a key of the data tree is a default key
\* exactly when the new input does not give it: a key that was a default
\* key before and that the new input gives is one no longer.
C34_ReloadRecomputesDefaultKeys ==
    (cur.op = "Reload" /\ cur.res = "ok") =>
        \A key \in KeySet(Memory(cfg["root"])) :
            IsDefault("root", key) <=> key \notin KeySet(Inputs[cur.arg].tree)

\* C35: after the Reset of a section every leaf the schema declares by
\* literal names below the section is a default key under its full path,
\* whether or not it held an explicit value before.
C35_ResetSectionMarksLeavesDefault ==
    (cur.op = "Reset" /\ cur.arg = "section" /\ cur.res = "ok") =>
        \A l \in LiteralLeaves(Defaults(cfg["root"]), <<>>) :
            HasPrefix(l.key, cur.key \o <<Dot>>) => IsDefault("root", l.key)

\* C36: the view made by Section(x) on the view of a addresses the keys
\* below a.x: its Get(v) returns what Get(a.x.v) on the root returns, and a
\* Set(v, n) through it is read back by Get(a.x.v) on the root.
C36_ViewsCompose ==
    [][ (cur.op = "Section" /\ cur.h = "view" /\ cfg["view"].section = X) =>
           /\ Get("view", V) = Get("root", KeyAXV)
           /\ (cur'.op = "Set" /\ cur'.h = "view" /\ cur'.key = V) =>
                  /\ cur'.res \in {"ok", "same"}
                  /\ GetAfter("root", KeyAXV)
                         = GetAfter("view", V) ]_vars

\* C37: a Set through the view of a that changes the value clears the
\* default mark of the key for the root as well: after Set(b, n) on the
\* view has stored a new value, a.b is no default key of the root.
C37_ViewSetClearsRootDefault ==
    (/\ cur.op = "Set" /\ cur.h = "view" /\ cur.key = KeyB /\ cur.res = "ok"
     /\ cfg["view"].section = KeyA)
        => ~IsDefault("root", KeyAB)

\* C38: Reset(b) on the view of a does what Reset(a.b) on the root does: it
\* returns without a panic and a.b reads the default of the schema on the
\* root afterwards.
C38_ViewResetIsRootReset ==
    (cur.op = "Reset" /\ cur.h = "view" /\ cur.key = KeyB /\ cfg["view"].section = KeyA) =>
        /\ cur.res \in {"ok", "same"}
        /\ Get("root", KeyAB).val \in {SchemaDefault(KeyAB), Canonical(SchemaDefault(KeyAB))}

====
